---- MODULE Spec2Model ----
(***************************************************************************)
(* Model of the calorie tracker page (src/app/page.tsx).                   *)
(*                                                                         *)
(* State: the React state of CalorieTracker (foodInput, loading, error,    *)
(* dailyTotals, loggedMeals), the Meal objects it refers to, and the       *)
(* logFood calls that are suspended at an await.                           *)
(*                                                                         *)
(* Meal objects live in `heap`; loggedMeals and the lists captured by      *)
(* suspended logFood calls hold references (indices into heap), because    *)
(* the handlers copy the array ([...loggedMeals]) but mutate the Meal and  *)
(* Ingredient objects in place.                                            *)
(*                                                                         *)
(* Numbers: calories are integers; protein, carbs and fat are held in      *)
(* tenths of a gram (105 is 10.5 g), so that Math.round(x * m * 10) / 10   *)
(* is an integer rounding.  An absent numeric field (undefined) is 0: the  *)
(* code only tests these fields for truthiness.  An optional object field  *)
(* is a sequence of length 0 (absent) or 1.  The progress bar state        *)
(* (loadingMessage, loadingStage, progress) is not modelled.               *)
(*                                                                         *)
(* Indices given to handlers are 0-based as in the source; element i of a  *)
(* source array is element i + 1 of the sequence that models it.           *)
(***************************************************************************)
EXTENDS Integers, Sequences, FiniteSets, Bags, TLC

VARIABLES
    foodInput,    \* text of the input box, a sequence of characters
    loading,      \* useState(false)
    error,        \* useState("")
    dailyTotals,  \* useState<Nutrients>
    loggedMeals,  \* useState<Meal[]>: sequence of references into heap
    heap,         \* the Meal objects created so far (by JSON parsing)
    pending,      \* bag of suspended logFood calls, with the loggedMeals each captured
    uncaught      \* the handler that ran last ended in an uncaught TypeError

vars == <<foodInput, loading, error, dailyTotals, loggedMeals, heap, pending, uncaught>>

\* ------------------------------------------------------------------ bounds
\* Meal objects ever created.
MaxObjs == 2
\* logFood calls suspended at the same time.
MaxInFlight == 2

\* --------------------------------------------------------------- nutrients
Nut(c, p, cb, f) == [calories |-> c, protein |-> p, carbs |-> cb, fat |-> f]

ZeroNutrients == Nut(0, 0, 0, 0)

AddNutrients(a, b) ==
    Nut(a.calories + b.calories, a.protein + b.protein,
        a.carbs + b.carbs, a.fat + b.fat)

RECURSIVE SumNutrients(_)
\* Element-wise sum of a sequence of Nutrients, accumulated left to right from
\* {0, 0, 0, 0} as the forEach loops do.
SumNutrients(ns) ==
    IF ns = <<>> THEN ZeroNutrients
    ELSE AddNutrients(SumNutrients(SubSeq(ns, 1, Len(ns) - 1)), ns[Len(ns)])

\* Mutant of MathRound: Math.floor.
MathFloor(num, den) == num \div den

\* Math.round(num / den) for den > 0: the nearest integer, a half rounding up.
MathRound(num, den) == (2 * num + den) \div (2 * den)

\* ------------------------------------------------- what the service returns
\* A string as a sequence of one-character strings.
Chars_30gslice == <<"3", "0", "g", " ", "s", "l", "i", "c", "e">>
Chars_1cup == <<"1", " ", "c", "u", "p">>
Chars_1tbsp == <<"1", " ", "t", "b", "s", "p">>

\* Ingredients as JSON.parse creates them: originalNutrients is absent.
Bread ==
    [name |-> "bread", serving_info |-> Chars_30gslice,
     nutrients |-> Nut(201, 105, 200, 50), originalNutrients |-> <<>>,
     foodMeasures |-> <<[gramWeight |-> 30, gram_weight |-> 0]>>,
     ai_selected_portion |-> <<[gramWeight |-> 100]>>]

Lettuce ==
    [name |-> "lettuce", serving_info |-> Chars_1cup,
     nutrients |-> Nut(15, 15, 25, 5), originalNutrients |-> <<>>,
     foodMeasures |-> <<[gramWeight |-> 0, gram_weight |-> 50]>>,
     ai_selected_portion |-> <<>>]

Dressing ==
    [name |-> "dressing", serving_info |-> Chars_1tbsp,
     nutrients |-> Nut(73, 0, 5, 80), originalNutrients |-> <<>>,
     foodMeasures |-> <<>>,
     ai_selected_portion |-> <<>>]

\* Meals as the service returns them.  total_nutrients is the service's own
\* figure: for "toast" it is the sum of the ingredients, for "salad" it is not
\* (the page never checks it).
ServiceMeal(meal_name) ==
    IF meal_name = "toast"
    THEN [meal_name |-> "toast", ingredients |-> <<Bread>>,
          total_nutrients |-> Nut(201, 105, 200, 50)]
    ELSE [meal_name |-> "salad", ingredients |-> <<Lettuce, Dressing>>,
          total_nutrients |-> Nut(90, 20, 30, 80)]

\* The loggedMeals arrays a response may carry.
Batches == {<<"toast">>, <<"salad">>, <<"toast", "salad">>}

\* The responses of fetch("/api/analyze-food").  rejected: the fetch promise
\* rejects.  ok: response.ok.  parses: response.json() resolves.  errorField:
\* the body's `error` ("" when it has none).  hasDailyTotals / hasLoggedMeals:
\* the body has a truthy field of that name.
Response(rejected, ok, parses, errorField, hasDT, dt, hasLM, lm) ==
    [rejected |-> rejected, ok |-> ok, parses |-> parses, errorField |-> errorField,
     hasDailyTotals |-> hasDT, dailyTotals |-> dt,
     hasLoggedMeals |-> hasLM, loggedMeals |-> lm]

FailedResponses ==
    { Response(TRUE, FALSE, FALSE, "", FALSE, ZeroNutrients, FALSE, <<>>),
      Response(FALSE, FALSE, TRUE, "Rate limit exceeded", FALSE, ZeroNutrients, FALSE, <<>>),
      Response(FALSE, FALSE, TRUE, "", FALSE, ZeroNutrients, FALSE, <<>>),
      Response(FALSE, FALSE, FALSE, "", FALSE, ZeroNutrients, FALSE, <<>>),
      Response(FALSE, TRUE, FALSE, "", FALSE, ZeroNutrients, FALSE, <<>>),
      Response(FALSE, TRUE, TRUE, "", FALSE, ZeroNutrients, TRUE, <<"toast">>),
      Response(FALSE, TRUE, TRUE, "", TRUE, Nut(201, 105, 200, 50), FALSE, <<>>) }

ValidResponses ==
    { Response(FALSE, TRUE, TRUE, "", TRUE, dt, TRUE, lm) :
        dt \in {Nut(201, 105, 200, 50), Nut(999, 9, 9, 9)}, lm \in Batches }

Responses == FailedResponses \cup ValidResponses

\* ------------------------------------------------------ nutrient aggregator
\* The totals recalculateDailyTotals computes for the list `meals` of
\* references, read from the objects in h.
DailySum(h, meals) ==
    SumNutrients([k \in 1..Len(meals) |-> h[meals[k]].total_nutrients])

\* Mutant of recalculateDailyTotals: sums the loggedMeals of the render instead
\* of the list it is given.
DailyTotalsOfRenderedList(h, meals) == DailySum(h, loggedMeals)

\* recalculateDailyTotals(meals): the value it gives to setDailyTotals.
recalculateDailyTotals(h, meals) == DailySum(h, meals)

\* The totals of the ingredients of one Meal object.
IngredientSum(meal) ==
    SumNutrients([k \in 1..Len(meal.ingredients) |-> meal.ingredients[k].nutrients])

\* Mutant of recalculateMealTotals: the assignment to meal.total_nutrients is
\* missing.
MealTotalsNotAssigned(h, mealIndex, updatedMeals) == h

\* Mutant of recalculateMealTotals: the totals start from the meal's present
\* total_nutrients instead of zero.
MealTotalsAccumulated(h, mealIndex, updatedMeals) ==
    LET ref == updatedMeals[mealIndex + 1]
    IN  [h EXCEPT ![ref].total_nutrients =
                      AddNutrients(h[ref].total_nutrients, IngredientSum(h[ref]))]

\* Mutant of recalculateMealTotals: the totals of every meal of the list are
\* recomputed, not those of the meal at mealIndex only.
MealTotalsOfEveryMeal(h, mealIndex, updatedMeals) ==
    [ref \in 1..Len(h) |->
        IF \E j \in 1..Len(updatedMeals) : updatedMeals[j] = ref
        THEN [h[ref] EXCEPT !.total_nutrients = IngredientSum(h[ref])]
        ELSE h[ref]]

\* recalculateMealTotals(mealIndex, updatedMeals): the heap after the in-place
\* assignment meal.total_nutrients = totals (the list itself is returned as is).
recalculateMealTotals(h, mealIndex, updatedMeals) ==
    LET ref == updatedMeals[mealIndex + 1]
    IN  [h EXCEPT ![ref].total_nutrients = IngredientSum(h[ref])]

\* ---------------------------------------------------------- portion rescaler
Digits == {"0", "1", "2", "3", "4", "5", "6", "7", "8", "9"}

DigitValue(c) ==
    CASE c = "0" -> 0 [] c = "1" -> 1 [] c = "2" -> 2 [] c = "3" -> 3
      [] c = "4" -> 4 [] c = "5" -> 5 [] c = "6" -> 6 [] c = "7" -> 7
      [] c = "8" -> 8 [] c = "9" -> 9

RECURSIVE DigitRunEnd(_, _)
\* First position at or after i of s that holds no digit (Len(s) + 1 if none).
DigitRunEnd(s, i) ==
    IF i > Len(s) \/ s[i] \notin Digits THEN i ELSE DigitRunEnd(s, i + 1)

\* /(\d+)g/ matches at position i: the digits from i on, taken greedily, are
\* followed by "g" (giving digits back cannot help: what follows is a digit).
GramMatchAt(s, i) ==
    /\ s[i] \in Digits
    /\ DigitRunEnd(s, i) <= Len(s)
    /\ s[DigitRunEnd(s, i)] = "g"

\* servingInfo.match(/(\d+)g/): <<>> for null, else <<group 1>> of the
\* leftmost match.
GramMatch(s) ==
    LET starts == {i \in 1..Len(s) : GramMatchAt(s, i)}
    IN  IF starts = {} THEN <<>>
        ELSE LET i == CHOOSE j \in starts : \A k \in starts : j <= k
             IN  <<SubSeq(s, i, DigitRunEnd(s, i) - 1)>>

RECURSIVE ParseDigits(_)
\* parseFloat of a string of decimal digits.
ParseDigits(ds) ==
    IF ds = <<>> THEN 0
    ELSE 10 * ParseDigits(SubSeq(ds, 1, Len(ds) - 1)) + DigitValue(ds[Len(ds)])

\* Mutant of PortionOrServingGramWeight: serving_info is read first, the AI's
\* portion only when it gives nothing.
ServingBeforePortion(ingredient) ==
    LET gramMatch == GramMatch(ingredient.serving_info)
    IN  IF gramMatch # <<>> /\ ParseDigits(gramMatch[1]) # 0
        THEN ParseDigits(gramMatch[1])
        ELSE IF ingredient.ai_selected_portion # <<>>
             THEN ingredient.ai_selected_portion[1].gramWeight
             ELSE 0

\* originalGramWeight after the first if/else: the AI's portion when its
\* gramWeight is truthy, else the grams read out of serving_info, else 0.
PortionOrServingGramWeight(ingredient) ==
    IF /\ ingredient.ai_selected_portion # <<>>
       /\ ingredient.ai_selected_portion[1].gramWeight # 0
    THEN ingredient.ai_selected_portion[1].gramWeight
    ELSE LET gramMatch == GramMatch(ingredient.serving_info)
         IN  IF gramMatch # <<>> THEN ParseDigits(gramMatch[1]) ELSE 0

\* foodMeasures[0].gramWeight || foodMeasures[0].gram_weight || 0
FirstMeasureGramWeight(ingredient) ==
    LET m == ingredient.foodMeasures[1]
    IN  IF m.gramWeight # 0 THEN m.gramWeight ELSE m.gram_weight

\* originalGramWeight as recalculateIngredientNutrition resolves it.
originalGramWeight(ingredient) ==
    LET w == PortionOrServingGramWeight(ingredient)
    IN  IF w = 0 /\ ingredient.foodMeasures # <<>>
        THEN FirstMeasureGramWeight(ingredient)
        ELSE w

\* Mutant of CanRescale: the requested weight is not tested.
CanRescaleAnyWeight(refGramWeight, selectedGramWeight) == refGramWeight > 0

\* The guard of the rescale.
CanRescale(refGramWeight, selectedGramWeight) ==
    refGramWeight > 0 /\ selectedGramWeight > 0

\* Mutant of Snapshot: the snapshot is taken at every rescale.
SnapshotEveryTime(ingredient) == <<ingredient.nutrients>>

\* ingredient.originalNutrients after the one-time snapshot.
Snapshot(ingredient) ==
    IF ingredient.originalNutrients = <<>>
    THEN <<ingredient.nutrients>>
    ELSE ingredient.originalNutrients

\* Mutant of ScaledNutrients: scales the current nutrients, not the snapshot.
ScaledFromCurrent(ingredient, selectedGramWeight, refGramWeight) ==
    LET o == ingredient.nutrients
    IN  Nut(MathRound(o.calories * selectedGramWeight, refGramWeight),
            MathRound(o.protein * selectedGramWeight, refGramWeight),
            MathRound(o.carbs * selectedGramWeight, refGramWeight),
            MathRound(o.fat * selectedGramWeight, refGramWeight))

\* newNutrients: the snapshot times selectedGramWeight / refGramWeight, the
\* calories rounded to an integer and the others to a tenth.
ScaledNutrients(ingredient, selectedGramWeight, refGramWeight) ==
    LET o == Snapshot(ingredient)[1]
    IN  Nut(MathRound(o.calories * selectedGramWeight, refGramWeight),
            MathRound(o.protein * selectedGramWeight, refGramWeight),
            MathRound(o.carbs * selectedGramWeight, refGramWeight),
            MathRound(o.fat * selectedGramWeight, refGramWeight))

\* The ingredient after a rescale that passed its guard.
RescaledIngredient(ingredient, selectedGramWeight) ==
    [ingredient EXCEPT
        !.originalNutrients = Snapshot(ingredient),
        !.nutrients = ScaledNutrients(ingredient, selectedGramWeight,
                                      originalGramWeight(ingredient))]

\* Mutant of ResetIngredient: the copy onto nutrients is missing.
ResetWithoutCopy(ingredient) == ingredient

\* The ingredient after ingredient.nutrients = {...ingredient.originalNutrients}.
ResetIngredient(ingredient) ==
    [ingredient EXCEPT !.nutrients = ingredient.originalNutrients[1]]

\* ------------------------------------------------------------------- inputs
\* Texts the user may have typed.
FoodTexts == {<<>>, <<" ", " ">>, <<" ", "e", "g", "g">>}

\* Gram weights a handler may be given.
GramChoices == {0 - 5, 0, 25, 150}

RECURSIVE TrimStart(_)
TrimStart(s) == IF s # <<>> /\ s[1] = " " THEN TrimStart(Tail(s)) ELSE s

RECURSIVE TrimEnd(_)
TrimEnd(s) ==
    IF s # <<>> /\ s[Len(s)] = " " THEN TrimEnd(SubSeq(s, 1, Len(s) - 1)) ELSE s

\* Mutant of Trim: the text is taken as typed.
NoTrim(s) == s

\* foodInput.trim()
Trim(s) == TrimEnd(TrimStart(s))

\* --------------------------------------------------------------------- state
Init ==
    /\ foodInput = <<>>
    /\ loading = FALSE
    /\ error = ""
    /\ dailyTotals = ZeroNutrients
    /\ loggedMeals = <<>>
    /\ heap = <<>>
    /\ pending = EmptyBag
    /\ uncaught = FALSE

\* A suspended logFood call: the loggedMeals of the render it was started in,
\* and the await it is suspended at ("fetch": the request, up to the parsed
\* body; "timer": the 500 ms pause after a success, when the captured list is
\* no longer read and is dropped).
Call(capturedMeals, awaiting) == [loggedMeals |-> capturedMeals, awaiting |-> awaiting]

\* The references held by the list `meals` and by the suspended calls.
Live(meals, calls) ==
    {meals[j] : j \in 1..Len(meals)} \cup
    UNION {{c.loggedMeals[j] : j \in 1..Len(c.loggedMeals)} : c \in BagToSet(calls)}

\* What stands in the heap for an object nothing refers to any more.
Collected == [meal_name |-> "", ingredients |-> <<>>, total_nutrients |-> ZeroNutrients]

\* The heap with its garbage collected: the objects that neither `meals` nor a
\* suspended call refers to can never be read again.
Collect(h, meals, calls) ==
    [ref \in 1..Len(h) |-> IF ref \in Live(meals, calls) THEN h[ref] ELSE Collected]

\* meals[mealIndex].ingredients[ingredientIndex] is an Ingredient (anything else
\* is undefined, and reading a property of it throws a TypeError).
IngredientExists(meals, mealIndex, ingredientIndex) ==
    /\ mealIndex \in 0..(Len(meals) - 1)
    /\ ingredientIndex \in 0..(Len(heap[meals[mealIndex + 1]].ingredients) - 1)

\* The heap with ingredient ingredientIndex of the Meal ref replaced.
WithIngredient(h, ref, ingredientIndex, ingredient) ==
    [h EXCEPT ![ref].ingredients[ingredientIndex + 1] = ingredient]

\* ------------------------------------------------------------ input box
\* onChange: setFoodInput(e.target.value)
setFoodInput(text) ==
    /\ foodInput' = text
    /\ uncaught' = FALSE
    /\ UNCHANGED <<loading, error, dailyTotals, loggedMeals, heap, pending>>

\* ---------------------------------------------------------------- rescale
\* The objects after recalculateIngredientNutrition(mealIndex, ingredientIndex,
\* selectedGramWeight, meals) for an ingredient that exists: the ingredient
\* rescaled and its meal's totals recomputed if the guard holds, else as before.
RescaledHeap(h, meals, mealIndex, ingredientIndex, selectedGramWeight) ==
    LET ref == meals[mealIndex + 1]
        ingredient == h[ref].ingredients[ingredientIndex + 1]
    IN  IF CanRescale(originalGramWeight(ingredient), selectedGramWeight)
        THEN recalculateMealTotals(
                 WithIngredient(h, ref, ingredientIndex,
                                RescaledIngredient(ingredient, selectedGramWeight)),
                 mealIndex, meals)
        ELSE h

\* dailyTotals after the same call, `totals` being dailyTotals before it.
RescaledTotals(h, totals, meals, mealIndex, ingredientIndex, selectedGramWeight) ==
    IF CanRescale(originalGramWeight(h[meals[mealIndex + 1]].ingredients[ingredientIndex + 1]),
                  selectedGramWeight)
    THEN recalculateDailyTotals(
             RescaledHeap(h, meals, mealIndex, ingredientIndex, selectedGramWeight), meals)
    ELSE totals

\* recalculateIngredientNutrition(mealIndex, ingredientIndex,
\* selectedGramWeight, meals) with meals = [...loggedMeals].
recalculateIngredientNutrition(mealIndex, ingredientIndex, selectedGramWeight) ==
    LET meals == loggedMeals
    IN  IF ~IngredientExists(meals, mealIndex, ingredientIndex)
        THEN /\ uncaught' = TRUE
             /\ UNCHANGED <<dailyTotals, loggedMeals, heap>>
        ELSE /\ heap' = RescaledHeap(heap, meals, mealIndex, ingredientIndex,
                                    selectedGramWeight)
             /\ loggedMeals' = meals
             /\ dailyTotals' = RescaledTotals(heap, dailyTotals, meals, mealIndex,
                                              ingredientIndex, selectedGramWeight)
             /\ uncaught' = FALSE

\* The objects after resetToOriginalNutrition(mealIndex, ingredientIndex) for an
\* ingredient that exists: its nutrients copied back from the snapshot and its
\* meal's totals recomputed if it has a snapshot, else as before.
ResetHeap(h, newMeals, mealIndex, ingredientIndex) ==
    LET ref == newMeals[mealIndex + 1]
        ingredient == h[ref].ingredients[ingredientIndex + 1]
    IN  IF ingredient.originalNutrients # <<>>
        THEN recalculateMealTotals(
                 WithIngredient(h, ref, ingredientIndex, ResetIngredient(ingredient)),
                 mealIndex, newMeals)
        ELSE h

\* dailyTotals after the same call, `totals` being dailyTotals before it.
ResetTotals(h, totals, newMeals, mealIndex, ingredientIndex) ==
    IF h[newMeals[mealIndex + 1]].ingredients[ingredientIndex + 1].originalNutrients # <<>>
    THEN recalculateDailyTotals(ResetHeap(h, newMeals, mealIndex, ingredientIndex), newMeals)
    ELSE totals

\* Mutant of resetNutrition: the ingredient is read with optional chaining, and
\* nothing is thrown when it is not there.
resetNutritionOptionalChaining(mealIndex, ingredientIndex) ==
    LET newMeals == loggedMeals
    IN  IF ~IngredientExists(newMeals, mealIndex, ingredientIndex)
        THEN /\ uncaught' = FALSE
             /\ UNCHANGED <<dailyTotals, loggedMeals, heap>>
        ELSE /\ heap' = ResetHeap(heap, newMeals, mealIndex, ingredientIndex)
             /\ loggedMeals' = newMeals
             /\ dailyTotals' = ResetTotals(heap, dailyTotals, newMeals, mealIndex,
                                           ingredientIndex)
             /\ uncaught' = FALSE

\* The body of resetToOriginalNutrition(mealIndex, ingredientIndex).
resetNutrition(mealIndex, ingredientIndex) ==
    LET newMeals == loggedMeals
    IN  IF ~IngredientExists(newMeals, mealIndex, ingredientIndex)
        THEN /\ uncaught' = TRUE
             /\ UNCHANGED <<dailyTotals, loggedMeals, heap>>
        ELSE /\ heap' = ResetHeap(heap, newMeals, mealIndex, ingredientIndex)
             /\ loggedMeals' = newMeals
             /\ dailyTotals' = ResetTotals(heap, dailyTotals, newMeals, mealIndex,
                                           ingredientIndex)
             /\ uncaught' = FALSE

selectMeasurement(mealIndex, ingredientIndex, measureIndex, gramWeight) ==
    /\ recalculateIngredientNutrition(mealIndex, ingredientIndex, gramWeight)
    /\ UNCHANGED <<foodInput, loading, error, pending>>

\* Mutant of RescalesCustomGrams: zero grams is rescaled to, too.
RescalesCustomGramsFromZero(customGrams) == customGrams >= 0

\* The test of handleCustomGramInput: rescale, or else reset.
RescalesCustomGrams(customGrams) == customGrams > 0

\* The objects after handleCustomGramInput(mealIndex, ingredientIndex,
\* customGrams) for an ingredient that exists.
CustomGramHeap(h, meals, mealIndex, ingredientIndex, customGrams) ==
    IF RescalesCustomGrams(customGrams)
    THEN RescaledHeap(h, meals, mealIndex, ingredientIndex, customGrams)
    ELSE ResetHeap(h, meals, mealIndex, ingredientIndex)

\* dailyTotals after the same call, `totals` being dailyTotals before it.
CustomGramTotals(h, totals, meals, mealIndex, ingredientIndex, customGrams) ==
    IF RescalesCustomGrams(customGrams)
    THEN RescaledTotals(h, totals, meals, mealIndex, ingredientIndex, customGrams)
    ELSE ResetTotals(h, totals, meals, mealIndex, ingredientIndex)

handleCustomGramInput(mealIndex, ingredientIndex, customGrams) ==
    /\ IF RescalesCustomGrams(customGrams)
       THEN recalculateIngredientNutrition(mealIndex, ingredientIndex, customGrams)
       ELSE resetNutrition(mealIndex, ingredientIndex)
    /\ UNCHANGED <<foodInput, loading, error, pending>>

resetToOriginalNutrition(mealIndex, ingredientIndex) ==
    /\ resetNutrition(mealIndex, ingredientIndex)
    /\ UNCHANGED <<foodInput, loading, error, pending>>

\* ----------------------------------------------------------------- remove
\* Mutant of FilterOut: everything from index on is dropped.
FilterOutFrom(meals, index) ==
    IF index \in 0..(Len(meals) - 1) THEN SubSeq(meals, 1, index) ELSE meals

\* loggedMeals.filter((_, i) => i !== index)
FilterOut(meals, index) ==
    IF index \in 0..(Len(meals) - 1)
    THEN SubSeq(meals, 1, index) \o SubSeq(meals, index + 2, Len(meals))
    ELSE meals

removeMeal(index) ==
    LET newMeals == FilterOut(loggedMeals, index)
    IN  /\ loggedMeals' = newMeals
        /\ dailyTotals' = recalculateDailyTotals(heap, newMeals)
        /\ heap' = Collect(heap, newMeals, pending)
        /\ uncaught' = FALSE
        /\ UNCHANGED <<foodInput, loading, error, pending>>

\* ---------------------------------------------------------------- logFood
\* logFood up to its first await.
logFoodStart ==
    IF Trim(foodInput) = <<>>
    THEN /\ error' = "Please enter what you ate"
         /\ uncaught' = FALSE
         /\ UNCHANGED <<foodInput, loading, dailyTotals, loggedMeals, heap, pending>>
    ELSE /\ BagCardinality(pending) < MaxInFlight
         /\ error' = ""
         /\ loading' = TRUE
         /\ pending' = pending (+) SetToBag({Call(loggedMeals, "fetch")})
         /\ uncaught' = FALSE
         /\ UNCHANGED <<foodInput, dailyTotals, loggedMeals, heap>>

\* The "Log Food" button: disabled={loading}.
clickLogFood ==
    /\ ~loading
    /\ logFoodStart

\* onKeyPress on the input: e.key === "Enter" && logFood().
pressEnter == logFoodStart

\* Mutant of InvalidFormat: only loggedMeals is looked for.
InvalidFormatLoggedMealsOnly(resp) == ~resp.hasLoggedMeals

\* !data.dailyTotals || !data.loggedMeals
InvalidFormat(resp) == ~resp.hasDailyTotals \/ ~resp.hasLoggedMeals

\* The try block throws before it reaches the append.
Throws(resp) ==
    \/ resp.rejected
    \/ ~resp.parses
    \/ ~resp.ok
    \/ InvalidFormat(resp)

\* err.message of what the try block throws.
ThrownMessage(resp) ==
    IF resp.rejected THEN "Failed to fetch"
    ELSE IF ~resp.parses THEN "Unexpected token < in JSON at position 0"
    ELSE IF ~resp.ok
         THEN IF resp.errorField # "" THEN resp.errorField
              ELSE "Failed to process food data"
    ELSE "Invalid response format from AI. Please try again."

\* The list the new meals are appended to: the loggedMeals of the closure.
AppendBase(call) == call.loggedMeals

\* [...loggedMeals, ...data.loggedMeals], the parsed meals being new objects
\* placed at the end of h.
NewMeals(call, h, batch) ==
    AppendBase(call) \o [j \in 1..Len(batch) |-> Len(h) + j]

\* Mutant of AppendedTotals: the service's dailyTotals is added to the running
\* total.
ServiceTotalsAdded(resp, h, newMeals) == AddNutrients(dailyTotals, resp.dailyTotals)

\* The totals logFood sets after the append, recalculateDailyTotals(newMeals):
\* of the body's dailyTotals only the presence has been tested.
AppendedTotals(resp, h, newMeals) == recalculateDailyTotals(h, newMeals)

\* logFood from the fetch settling to its next await or its end: the
\* suspended call `call` gets the response resp.
logFoodSettle(call, resp) ==
    /\ BagIn(call, pending)
    /\ call.awaiting = "fetch"
    /\ uncaught' = FALSE
    /\ IF Throws(resp)
       THEN LET rest == pending (-) SetToBag({call})
            IN  /\ error' = ThrownMessage(resp)
                /\ loading' = FALSE
                /\ pending' = rest
                /\ heap' = Collect(heap, loggedMeals, rest)
                /\ UNCHANGED <<foodInput, dailyTotals, loggedMeals>>
       ELSE /\ Len(heap) + Len(resp.loggedMeals) <= MaxObjs
            /\ LET parsed == [j \in 1..Len(resp.loggedMeals) |->
                                 ServiceMeal(resp.loggedMeals[j])]
                   newMeals == NewMeals(call, heap, resp.loggedMeals)
                   rest == (pending (-) SetToBag({call})) (+) SetToBag({Call(<<>>, "timer")})
               IN  /\ loggedMeals' = newMeals
                   /\ dailyTotals' = AppendedTotals(resp, heap \o parsed, newMeals)
                   /\ pending' = rest
                   /\ heap' = Collect(heap \o parsed, newMeals, rest)
            /\ foodInput' = <<>>
            /\ UNCHANGED <<loading, error>>

\* Mutant of logFoodFinally: setLoading(false) is missing.
logFoodFinallyKeepsLoading(call) ==
    /\ BagIn(call, pending)
    /\ call.awaiting = "timer"
    /\ pending' = pending (-) SetToBag({call})
    /\ uncaught' = FALSE
    /\ UNCHANGED <<foodInput, loading, error, dailyTotals, loggedMeals, heap>>

\* logFood after the 500 ms pause: the finally block.
logFoodFinally(call) ==
    /\ BagIn(call, pending)
    /\ call.awaiting = "timer"
    /\ loading' = FALSE
    /\ pending' = pending (-) SetToBag({call})
    /\ uncaught' = FALSE
    /\ UNCHANGED <<foodInput, error, dailyTotals, loggedMeals, heap>>

\* ------------------------------------------------------------ specification
\* Meal indices a handler may be given: those of the rendered list, and `past`
\* more beyond its end.
MealIndices(past) == 0..(Len(loggedMeals) - 1 + past)

\* Ingredient indices a handler may be given for meal m, likewise.
IngredientIndices(m, past) ==
    IF m < Len(loggedMeals)
    THEN 0..(Len(heap[loggedMeals[m + 1]].ingredients) - 1 + past)
    ELSE 0..(past - 1)

\* A handler of a meal card runs, given one of `grams` and indices at most
\* `past` beyond the end.
CardEvent(grams, past) ==
    \/ \E index \in MealIndices(past) : removeMeal(index)
    \/ \E m \in MealIndices(past) : \E i \in IngredientIndices(m, past), w \in grams :
           selectMeasurement(m, i, 0, w)
    \/ \E m \in MealIndices(past) : \E i \in IngredientIndices(m, past), w \in grams :
           handleCustomGramInput(m, i, w)
    \/ \E m \in MealIndices(past) : \E i \in IngredientIndices(m, past) :
           resetToOriginalNutrition(m, i)

\* A suspended logFood call resumes: its fetch settles with one of
\* `responses`, or its timer fires.
ResumeEvent(responses) ==
    \/ \E call \in BagToSet(pending), resp \in responses : logFoodSettle(call, resp)
    \/ \E call \in BagToSet(pending) : logFoodFinally(call)

\* The page with food submitted by the button or the Enter key, its cards
\* giving indices in range: one text, every valid response and one failing one.
StoreTexts == {<<" ", "e", "g", "g">>}

StoreResponses ==
    ValidResponses \cup {Response(TRUE, FALSE, FALSE, "", FALSE, ZeroNutrients, FALSE, <<>>)}

StoreGrams == {0 - 5, 0, 150}

Next ==
    \/ \E text \in StoreTexts : setFoodInput(text)
    \/ clickLogFood
    \/ pressEnter
    \/ ResumeEvent(StoreResponses)
    \/ CardEvent(StoreGrams, 0)

Spec == Init /\ [][Next]_vars

\* The page with food submitted by the button only (so that one call at most
\* is suspended): every text, every response, every gram weight.
NextButton ==
    \/ \E text \in FoodTexts : setFoodInput(text)
    \/ clickLogFood
    \/ ResumeEvent(Responses)
    \/ CardEvent(GramChoices, 0)

SpecButton == Init /\ [][NextButton]_vars

\* What the runtime guarantees to a suspended logFood call: its request settles
\* (the fetch promise resolves or rejects) and its 500 ms timer fires.
FairResume(responses) ==
    /\ WF_vars(\E call \in BagToSet(pending), resp \in responses : logFoodSettle(call, resp))
    /\ WF_vars(\E call \in BagToSet(pending) : logFoodFinally(call))

SpecButtonLive == SpecButton /\ FairResume(Responses)

\* The meal cards alone, for a list of meals that one response has brought
\* (the state logFood leaves once its finally block has run): the service's
\* meals, or one meal of one ingredient with nutrients {200, 10.0, 20.0, 5.0}
\* and any combination of ai_selected_portion, serving_info and foodMeasures.
\* The handlers are also given indices one past the end.
MaxCardMeals == 3

Chars_100gserving == <<"1", "0", "0", "g", " ", "s", "e", "r", "v", "i", "n", "g">>
Chars_2x40g == <<"2", " ", "x", " ", "4", "0", "g">>
Chars_0g == <<"0", "g">>

ProbePortions == {<<>>, <<[gramWeight |-> 0]>>, <<[gramWeight |-> 150]>>}

ProbeServings == {<<>>, Chars_1cup, Chars_0g, Chars_100gserving, Chars_2x40g}

ProbeMeasures ==
    {<<>>, <<[gramWeight |-> 30, gram_weight |-> 0]>>,
     <<[gramWeight |-> 0, gram_weight |-> 50]>>, <<[gramWeight |-> 0, gram_weight |-> 0]>>}

ProbeMeal(portion, serving, measures) ==
    [meal_name |-> "probe",
     ingredients |-> <<[name |-> "probe", serving_info |-> serving,
                        nutrients |-> Nut(200, 100, 200, 50), originalNutrients |-> <<>>,
                        foodMeasures |-> measures, ai_selected_portion |-> portion]>>,
     total_nutrients |-> Nut(200, 100, 200, 50)]

CardLists ==
    {<<ProbeMeal(portion, serving, measures)>> :
        portion \in ProbePortions, serving \in ProbeServings, measures \in ProbeMeasures}
    \cup
    UNION {{[j \in 1..n |-> ServiceMeal(names[j])] : names \in [1..n -> {"toast", "salad"}]} :
              n \in 1..MaxCardMeals}

CardGrams == {0 - 5, 0, 75, 150}

InitCards ==
    /\ foodInput = <<>>
    /\ loading = FALSE
    /\ error = ""
    /\ heap \in CardLists
    /\ loggedMeals = [j \in 1..Len(heap) |-> j]
    /\ dailyTotals = recalculateDailyTotals(heap, loggedMeals)
    /\ pending = EmptyBag
    /\ uncaught = FALSE

NextCards == CardEvent(CardGrams, 1)

SpecCards == InitCards /\ [][NextCards]_vars

\* ----------------------------------------------------------------- claims
\* The Meal objects of h that are still referred to.
LiveRefs(h) == {ref \in 1..Len(h) : h[ref] # Collected}

\* The positions of the ingredients of Meal ref.
IngredientsOf(h, ref) == 1..Len(h[ref].ingredients)

\* The ingredient at position i of Meal ref as the service sent it.
Received(h, ref, i) == ServiceMeal(h[ref].meal_name).ingredients[i]

\* n times w / refWeight, rounded as the rescale rounds.
Scaled(n, w, refWeight) ==
    Nut(MathRound(n.calories * w, refWeight), MathRound(n.protein * w, refWeight),
        MathRound(n.carbs * w, refWeight), MathRound(n.fat * w, refWeight))

\* The ingredient that m and i name, before and after the step.
Target(m, i) == heap[loggedMeals[m + 1]].ingredients[i + 1]

TargetAfter(m, i) == heap'[loggedMeals[m + 1]].ingredients[i + 1]

\* C1: originalNutrients is written at most once per ingredient: a step that
\* sets it sets it to the nutrients the ingredient had before the step (the
\* rescale's snapshot), and no step of any handler changes it once it is set.
C1_OriginalWrittenOnce ==
    [][\A ref \in LiveRefs(heap) \cap LiveRefs(heap') : \A i \in IngredientsOf(heap, ref) :
         LET before == heap[ref].ingredients[i]
             after == heap'[ref].ingredients[i]
         IN  /\ before.originalNutrients # <<>>
                  => after.originalNutrients = before.originalNutrients
             /\ (before.originalNutrients = <<>> /\ after.originalNutrients # <<>>)
                  => after.originalNutrients = <<before.nutrients>>]_vars

\* C1 witness: a logged ingredient that has been rescaled away from its
\* snapshot, the snapshot still being what the service sent, next to another
\* logged meal.
C1_Witness ==
    /\ Len(loggedMeals) = 2
    /\ \E j \in 1..Len(loggedMeals) : \E i \in IngredientsOf(heap, loggedMeals[j]) :
         LET ing == heap[loggedMeals[j]].ingredients[i]
         IN  /\ ing.originalNutrients = <<Received(heap, loggedMeals[j], i).nutrients>>
             /\ ing.nutrients # ing.originalNutrients[1]

\* C2: round trip: in every reachable state, a reset of a rendered ingredient
\* leaves its nutrients equal to the nutrients it had before its first rescale,
\* those the service sent.
C2_ResetRestoresReceived ==
    \A m \in MealIndices(0) : \A i \in IngredientIndices(m, 0) :
        ResetHeap(heap, loggedMeals, m, i)[loggedMeals[m + 1]].ingredients[i + 1].nutrients
          = Received(heap, loggedMeals[m + 1], i + 1).nutrients

\* C2 witness: a logged ingredient with a snapshot whose nutrients are those
\* the service sent (no rescale by these weights gives them: a reset did).
C2_Witness ==
    \E j \in 1..Len(loggedMeals) : \E i \in IngredientsOf(heap, loggedMeals[j]) :
        LET ing == heap[loggedMeals[j]].ingredients[i]
        IN  /\ ing.originalNutrients # <<>>
            /\ ing.nutrients = Received(heap, loggedMeals[j], i).nutrients
            /\ \A w \in {g \in GramChoices : g > 0} :
                 Scaled(ing.nutrients, w, originalGramWeight(ing)) # ing.nutrients

\* C3: in every reachable state, a rescale that passes its guard gives the
\* nutrients the service sent scaled by the requested weight over the reference
\* weight, whatever rescales and resets came before: the result depends on the
\* last weight only.
C3_RescaleFromReceived ==
    \A m \in MealIndices(0) : \A i \in IngredientIndices(m, 0) :
        \A w \in {g \in GramChoices : g > 0} :
            originalGramWeight(Target(m, i)) > 0
            => RescaledHeap(heap, loggedMeals, m, i, w)[loggedMeals[m + 1]]
                   .ingredients[i + 1].nutrients
                 = Scaled(Received(heap, loggedMeals[m + 1], i + 1).nutrients, w,
                          originalGramWeight(Target(m, i)))

\* C3 witness: a logged ingredient rescaled to 150 g whose nutrients, scaled
\* again from where they are, would be something else.
C3_Witness ==
    \E j \in 1..Len(loggedMeals) : \E i \in IngredientsOf(heap, loggedMeals[j]) :
        LET ing == heap[loggedMeals[j]].ingredients[i]
            refWeight == originalGramWeight(ing)
        IN  /\ ing.originalNutrients # <<>>
            /\ refWeight > 0
            /\ ing.nutrients = Scaled(ing.originalNutrients[1], 150, refWeight)
            /\ Scaled(ing.nutrients, 150, refWeight) # ing.nutrients

\* C4: after a step that changes the nutrients of an ingredient of a meal, that
\* meal's total_nutrients is the element-wise sum of its ingredients' nutrients.
C4_MealTotalAfterChange ==
    [][\A ref \in LiveRefs(heap) \cap LiveRefs(heap') :
         (\E i \in IngredientsOf(heap, ref) :
             heap'[ref].ingredients[i].nutrients # heap[ref].ingredients[i].nutrients)
         => heap'[ref].total_nutrients = IngredientSum(heap'[ref])]_vars

\* C4 witness: a logged meal of two ingredients, one of them rescaled, whose
\* total is the sum of both and no longer the figure the service sent.
C4_Witness ==
    \E j \in 1..Len(loggedMeals) :
        LET meal == heap[loggedMeals[j]]
        IN  /\ Len(meal.ingredients) = 2
            /\ \E i \in 1..2 : /\ meal.ingredients[i].originalNutrients # <<>>
                               /\ meal.ingredients[i].nutrients #
                                    meal.ingredients[i].originalNutrients[1]
            /\ meal.total_nutrients = IngredientSum(meal)
            /\ meal.total_nutrients # ServiceMeal(meal.meal_name).total_nutrients

\* C5: between events, dailyTotals is the element-wise sum of total_nutrients
\* over the meals of loggedMeals, and all-zero when there are none.
C5_DailyTotalsAreSum ==
    /\ dailyTotals =
         SumNutrients([j \in 1..Len(loggedMeals) |-> heap[loggedMeals[j]].total_nutrients])
    /\ loggedMeals = <<>> => dailyTotals = ZeroNutrients

\* C5 witness: a meal has been removed from in front of a rescaled one, and
\* dailyTotals is the total of the meal that is left.
C5_Witness ==
    /\ Len(loggedMeals) = 1
    /\ loggedMeals[1] = 2
    /\ \E i \in IngredientsOf(heap, 2) : heap[2].ingredients[i].originalNutrients # <<>>
    /\ dailyTotals = heap[2].total_nutrients
    /\ dailyTotals # ZeroNutrients

\* The suspended calls whose request has not settled yet.
InFlight == {c \in BagToSet(pending) : c.awaiting = "fetch"}

NumInFlight == BagCardinality([c \in InFlight |-> pending[c]])

\* C6 (as claimed): between events, every meal of loggedMeals has
\* total_nutrients equal to the element-wise sum of its ingredients' nutrients,
\* meals just appended from a response included.
C6_MealTotalsAreSums ==
    \A j \in 1..Len(loggedMeals) :
        heap[loggedMeals[j]].total_nutrients = IngredientSum(heap[loggedMeals[j]])

\* C7 (as claimed): at most one request to the service is in flight.
C7_OneRequestInFlight == NumInFlight <= 1

\* C8 (as claimed): a step that appends a response's meals (it creates Meal
\* objects) makes loggedMeals the list as it was just before the step followed
\* by the new meals in arrival order.
C8_AppendsToCurrentList ==
    [][Len(heap') > Len(heap)
        => loggedMeals' =
             loggedMeals \o [j \in 1..(Len(heap') - Len(heap)) |-> Len(heap) + j]]_vars

\* The failures of a logFood call that C9 names: a rejected fetch, a non-success
\* status, a body that is not JSON, a body without dailyTotals or loggedMeals.
FailureOfCall(resp) ==
    \/ resp.rejected
    \/ ~resp.ok
    \/ ~resp.parses
    \/ ~resp.hasDailyTotals
    \/ ~resp.hasLoggedMeals

\* C9: the step in which a logFood call fails leaves loggedMeals, the logged
\* meals themselves and dailyTotals as they were and sets a non-empty error.
C9_FailureLeavesMeals ==
    [][\A call \in BagToSet(pending) : \A resp \in Responses :
         (FailureOfCall(resp) /\ logFoodSettle(call, resp))
         => /\ loggedMeals' = loggedMeals
            /\ dailyTotals' = dailyTotals
            /\ \A j \in 1..Len(loggedMeals) : heap'[loggedMeals[j]] = heap[loggedMeals[j]]
            /\ Len(heap') = Len(heap)
            /\ error' # ""]_vars

\* C9 witness: a call has failed for a response without dailyTotals while a
\* meal was logged.
C9_Witness ==
    /\ error = "Invalid response format from AI. Please try again."
    /\ ~loading
    /\ pending = EmptyBag
    /\ Len(loggedMeals) >= 1
    /\ dailyTotals # ZeroNutrients

\* C10: selectMeasurement with a gram weight that is not positive, or for an
\* ingredient whose reference gram weight is not positive, changes neither the
\* meal objects (nutrients, originalNutrients, total_nutrients) nor loggedMeals
\* nor dailyTotals, and raises no error.
C10_RescaleGuardNoOp ==
    [][\A m \in MealIndices(0) : \A i \in IngredientIndices(m, 0) :
         \A w \in GramChoices :
           ((w <= 0 \/ ~(originalGramWeight(Target(m, i)) > 0))
             /\ selectMeasurement(m, i, 0, w))
           => /\ UNCHANGED <<heap, loggedMeals, dailyTotals, error>>
              /\ ~uncaught']_vars

\* C10 witness: a logged meal holds an ingredient that cannot be rescaled (no
\* reference weight), still as the service sent it and with no snapshot, next
\* to an ingredient that has been rescaled.
C10_Witness ==
    \E j \in 1..Len(loggedMeals) :
        LET meal == heap[loggedMeals[j]]
        IN  \E i \in 1..Len(meal.ingredients), k \in 1..Len(meal.ingredients) :
              /\ originalGramWeight(meal.ingredients[i]) = 0
              /\ meal.ingredients[i].originalNutrients = <<>>
              /\ meal.ingredients[i] = Received(heap, loggedMeals[j], i)
              /\ meal.ingredients[k].originalNutrients # <<>>
              /\ ~uncaught

\* The maximal runs of digits of s that are immediately followed by "g", as
\* pairs <<first position, last position>>.
GramRuns(s) ==
    {r \in (1..Len(s)) \X (1..Len(s)) :
        /\ r[1] <= r[2]
        /\ \A k \in r[1]..r[2] : s[k] \in Digits
        /\ (r[1] = 1 \/ s[r[1] - 1] \notin Digits)
        /\ r[2] < Len(s)
        /\ s[r[2] + 1] = "g"}

RECURSIVE Decimal(_, _, _)
\* The number that the digits s[i..j] write.
Decimal(s, i, j) ==
    IF j < i THEN 0 ELSE 10 * Decimal(s, i, j - 1) + DigitValue(s[j])

\* The grams of the first run of digits of s immediately followed by "g", 0 if
\* there is none.
FirstGrams(s) ==
    IF GramRuns(s) = {} THEN 0
    ELSE LET r == CHOOSE q \in GramRuns(s) : \A o \in GramRuns(s) : q[1] <= o[1]
         IN  Decimal(s, r[1], r[2])

\* The reference gram weight by the priority order of C11.
ReferenceByPriority(ingredient) ==
    IF ingredient.ai_selected_portion # <<>>
         /\ ingredient.ai_selected_portion[1].gramWeight # 0
    THEN ingredient.ai_selected_portion[1].gramWeight
    ELSE IF FirstGrams(ingredient.serving_info) # 0
    THEN FirstGrams(ingredient.serving_info)
    ELSE IF ingredient.foodMeasures # <<>>
    THEN IF ingredient.foodMeasures[1].gramWeight # 0
         THEN ingredient.foodMeasures[1].gramWeight
         ELSE ingredient.foodMeasures[1].gram_weight
    ELSE 0

\* C11: the reference gram weight that a rescale resolves for any ingredient of
\* the page is, in strict priority: the AI portion's gramWeight when present
\* and non-zero; else the first run of digits followed by "g" in serving_info;
\* else, when that is zero or absent, foodMeasures[0].gramWeight (or
\* gram_weight) when present; else 0.  A step that rescales an ingredient
\* scales its snapshot by the requested weight over that reference.
C11_ReferencePriority ==
    /\ \A ref \in LiveRefs(heap) : \A i \in IngredientsOf(heap, ref) :
         originalGramWeight(heap[ref].ingredients[i])
           = ReferenceByPriority(heap[ref].ingredients[i])
    /\ \A m \in MealIndices(0) : \A i \in IngredientIndices(m, 0) :
         \A w \in {g \in CardGrams : g > 0} :
           LET after == RescaledHeap(heap, loggedMeals, m, i, w)[loggedMeals[m + 1]]
                            .ingredients[i + 1]
           IN  IF ReferenceByPriority(Target(m, i)) > 0
               THEN after.nutrients =
                      Scaled(after.originalNutrients[1], w, ReferenceByPriority(Target(m, i)))
               ELSE after = Target(m, i)

\* C11 witness: the ingredient with AI portion 150 g, serving_info
\* "100g serving" and a first measure of 30 g has been rescaled to 75 g and
\* holds half its snapshot, not three quarters of it.
C11_Witness ==
    \E ref \in LiveRefs(heap) : \E i \in IngredientsOf(heap, ref) :
        LET ing == heap[ref].ingredients[i]
        IN  /\ ing.ai_selected_portion = <<[gramWeight |-> 150]>>
            /\ ing.serving_info = Chars_100gserving
            /\ ing.foodMeasures # <<>>
            /\ ing.originalNutrients = <<Nut(200, 100, 200, 50)>>
            /\ ing.nutrients = Nut(100, 50, 100, 25)

\* C12: a removeMeal(index) step with an index of the list deletes the meal at
\* that index and no other, keeps the other meals as they are and in their
\* order, and leaves dailyTotals the sum of the total_nutrients of the meals
\* that remain; with an index past the end it leaves the list and its meals as
\* they were.
C12_RemoveExactlyOne ==
    [][\A index \in MealIndices(1) :
         removeMeal(index)
         => IF index < Len(loggedMeals)
            THEN /\ Len(loggedMeals') = Len(loggedMeals) - 1
                 /\ \A k \in 1..Len(loggedMeals') :
                      LET old == IF k <= index THEN k ELSE k + 1
                      IN  /\ loggedMeals'[k] = loggedMeals[old]
                          /\ heap'[loggedMeals'[k]] = heap[loggedMeals[old]]
                 /\ dailyTotals' =
                      SumNutrients([k \in 1..Len(loggedMeals') |->
                                       heap[loggedMeals'[k]].total_nutrients])
            ELSE /\ loggedMeals' = loggedMeals
                 /\ \A k \in 1..Len(loggedMeals) :
                      heap'[loggedMeals[k]] = heap[loggedMeals[k]]
                 /\ dailyTotals' = dailyTotals]_vars

\* C12 witness: the meal at index 1 of a list of three has been removed: the
\* first and the third are listed in that order, one of them rescaled, and
\* dailyTotals is the sum of their totals.
C12_Witness ==
    /\ Len(heap) = 3
    /\ loggedMeals = <<1, 3>>
    /\ heap[2] = Collected
    /\ dailyTotals = AddNutrients(heap[1].total_nutrients, heap[3].total_nutrients)
    /\ \E i \in IngredientsOf(heap, 3) : heap[3].ingredients[i].originalNutrients # <<>>

\* r is a nearest integer to num / den (den > 0).
Nearest(r, num, den) ==
    /\ 2 * (r * den - num) <= den
    /\ 2 * (num - r * den) <= den

\* C13: in every reachable state, a rescale of a rendered ingredient to a
\* positive weight w, its reference weight being positive, leaves nutrients
\* equal to the snapshot times w / reference: calories a nearest integer, and
\* protein, carbs and fat a nearest tenth; all four non-negative.  Nutrients
\* {200, 10.0, 20.0, 5.0} at reference 100 g rescaled to 150 g are
\* {300, 15.0, 30.0, 7.5}.
C13_RescaleRounds ==
    \A m \in MealIndices(0) : \A i \in IngredientIndices(m, 0) :
        \A w \in {g \in CardGrams : g > 0} :
            LET refWeight == originalGramWeight(Target(m, i))
                after == RescaledHeap(heap, loggedMeals, m, i, w)[loggedMeals[m + 1]]
                             .ingredients[i + 1]
                o == after.originalNutrients[1]
                n == after.nutrients
            IN  refWeight > 0
                => /\ after.originalNutrients # <<>>
                   /\ Nearest(n.calories, o.calories * w, refWeight)
                   /\ Nearest(n.protein, o.protein * w, refWeight)
                   /\ Nearest(n.carbs, o.carbs * w, refWeight)
                   /\ Nearest(n.fat, o.fat * w, refWeight)
                   /\ n.calories \in Nat /\ n.protein \in Nat
                   /\ n.carbs \in Nat /\ n.fat \in Nat
                   /\ (o = Nut(200, 100, 200, 50) /\ refWeight = 100 /\ w = 150)
                        => n = Nut(300, 150, 300, 75)

\* C13 witness: the ingredient {200, 10.0, 20.0, 5.0} with reference 100 g has
\* been rescaled to 150 g and holds {300, 15.0, 30.0, 7.5}.
C13_Witness ==
    \E ref \in LiveRefs(heap) : \E i \in IngredientsOf(heap, ref) :
        LET ing == heap[ref].ingredients[i]
        IN  /\ originalGramWeight(ing) = 100
            /\ ing.ai_selected_portion = <<>>
            /\ ing.originalNutrients = <<Nut(200, 100, 200, 50)>>
            /\ ing.nutrients = Nut(300, 150, 300, 75)
            /\ heap[ref].total_nutrients = Nut(300, 150, 300, 75)

\* C14: in every reachable state and for every rendered ingredient, a second
\* reset right after a reset changes nothing: the meal objects (the
\* ingredient's nutrients, its meal's total_nutrients) and dailyTotals after
\* two resets are those after one.
C14_ResetIdempotent ==
    \A m \in MealIndices(0) : \A i \in IngredientIndices(m, 0) :
        LET once == ResetHeap(heap, loggedMeals, m, i)
            totalsOnce == ResetTotals(heap, dailyTotals, loggedMeals, m, i)
        IN  /\ ResetHeap(once, loggedMeals, m, i) = once
            /\ ResetTotals(once, totalsOnce, loggedMeals, m, i) = totalsOnce

\* C14 witness: in a list of two meals or more, an ingredient that was
\* rescaled has been reset: it has its snapshot for nutrients, and the page
\* shows the sums.
C14_Witness ==
    /\ Len(loggedMeals) >= 2
    /\ ~uncaught
    /\ \E j \in 1..Len(loggedMeals) : \E i \in IngredientsOf(heap, loggedMeals[j]) :
         LET ing == heap[loggedMeals[j]].ingredients[i]
         IN  /\ ing.originalNutrients = <<ing.nutrients>>
             /\ heap[loggedMeals[j]].total_nutrients = IngredientSum(heap[loggedMeals[j]])
             /\ heap[loggedMeals[j]].total_nutrients #
                  ServiceMeal(heap[loggedMeals[j]].meal_name).total_nutrients
    /\ dailyTotals = DailySum(heap, loggedMeals)

\* C15: in every reachable state, handleCustomGramInput for a rendered
\* ingredient with an amount above 0 does what a rescale to that amount does;
\* with any other amount it resets: nutrients become the snapshot where there
\* is one (and the totals are recomputed), and where there is none neither the
\* meal objects nor dailyTotals change.
C15_CustomGramsRescaleOrReset ==
    \A m \in MealIndices(0) : \A i \in IngredientIndices(m, 0) : \A g \in CardGrams :
        LET after == CustomGramHeap(heap, loggedMeals, m, i, g)
            totals == CustomGramTotals(heap, dailyTotals, loggedMeals, m, i, g)
            meal == after[loggedMeals[m + 1]]
        IN  IF g > 0
            THEN /\ after = RescaledHeap(heap, loggedMeals, m, i, g)
                 /\ totals = RescaledTotals(heap, dailyTotals, loggedMeals, m, i, g)
            ELSE IF Target(m, i).originalNutrients # <<>>
            THEN /\ meal.ingredients[i + 1].nutrients = Target(m, i).originalNutrients[1]
                 /\ meal.ingredients[i + 1].originalNutrients = Target(m, i).originalNutrients
                 /\ meal.total_nutrients = IngredientSum(meal)
                 /\ totals = DailySum(after, loggedMeals)
            ELSE /\ after = heap
                 /\ totals = dailyTotals

\* C15 witness: of two ingredients of the list, one has been rescaled to the
\* amount of 75 g and the other has been reset to its snapshot.
C15_Witness ==
    \E j, k \in 1..Len(loggedMeals) :
        \E i \in IngredientsOf(heap, loggedMeals[j]), l \in IngredientsOf(heap, loggedMeals[k]) :
            LET scaled == heap[loggedMeals[j]].ingredients[i]
                reset == heap[loggedMeals[k]].ingredients[l]
            IN  /\ j # k
                /\ scaled.originalNutrients # <<>>
                /\ scaled.nutrients # scaled.originalNutrients[1]
                /\ scaled.nutrients =
                     Scaled(scaled.originalNutrients[1], 75, originalGramWeight(scaled))
                /\ reset.originalNutrients = <<reset.nutrients>>

\* C16: while a logFood call is suspended, it eventually ends and loading is
\* false (whatever the response: success, reported failure, a body that is
\* not JSON, a body without dailyTotals or loggedMeals); and the step in which
\* a call fails leaves loading false, so that the button is enabled again (the
\* handlers of the cards and of the input box are never disabled).
C16_LoadingEnds ==
    /\ (pending # EmptyBag) ~> (pending = EmptyBag /\ ~loading)
    /\ [][\A call \in BagToSet(pending) : \A resp \in Responses :
            (FailureOfCall(resp) /\ logFoodSettle(call, resp)) => ~loading']_vars

\* C16 witness: a call has ended on a body that is not JSON while a meal was
\* logged; nothing is suspended and loading is false.
C16_Witness ==
    /\ error = "Unexpected token < in JSON at position 0"
    /\ pending = EmptyBag
    /\ ~loading
    /\ Len(loggedMeals) >= 1

\* C17: a step that appends the meals of a successful response is the same
\* step for every successful response that carries the same loggedMeals with
\* another dailyTotals: loggedMeals, the meals and dailyTotals after it do not
\* depend on the service's dailyTotals.
C17_ServiceTotalsIgnored ==
    [][\A call \in BagToSet(pending) : \A r1, r2 \in ValidResponses :
         (r1.loggedMeals = r2.loggedMeals /\ logFoodSettle(call, r1))
         => logFoodSettle(call, r2)]_vars

\* C17 witness: a response has just been appended (its call is at the timer)
\* and dailyTotals is neither of the dailyTotals a response carries.
C17_Witness ==
    /\ \E c \in BagToSet(pending) : c.awaiting = "timer"
    /\ Len(loggedMeals) >= 1
    /\ \A r \in ValidResponses : dailyTotals # r.dailyTotals

\* The text s is empty or holds nothing but spaces.
Blank(s) == \A k \in 1..Len(s) : s[k] = " "

\* C18: a click on "Log Food" with blank input sets the error message and
\* nothing else: no call is suspended at a request, loading stays false, and
\* loggedMeals, the meals and dailyTotals are unchanged.
C18_BlankSubmit ==
    [][(Blank(foodInput) /\ clickLogFood)
        => /\ error' # ""
           /\ ~loading /\ ~loading'
           /\ UNCHANGED <<pending, loggedMeals, heap, dailyTotals, foodInput>>]_vars

\* C18 witness: whitespace has been submitted while a meal was logged: the
\* message is shown, nothing is suspended and loading is false.
C18_Witness ==
    /\ error = "Please enter what you ate"
    /\ foodInput = <<" ", " ">>
    /\ pending = EmptyBag
    /\ ~loading
    /\ Len(loggedMeals) >= 1

\* No ingredient is rendered at meal index m, ingredient index i.
OutOfRange(m, i) ==
    \/ m < 0
    \/ m >= Len(loggedMeals)
    \/ i < 0
    \/ i >= Len(heap[loggedMeals[m + 1]].ingredients)

\* C19: a step of selectMeasurement, handleCustomGramInput or
\* resetToOriginalNutrition for a meal index or an ingredient index past the
\* end throws, and leaves loggedMeals, the meal objects (nutrients,
\* originalNutrients, total_nutrients) and dailyTotals as they were.
C19_OutOfRangeThrows ==
    [][\A m \in MealIndices(1) : \A i \in IngredientIndices(m, 1) :
         (/\ OutOfRange(m, i)
          /\ \/ \E w \in CardGrams : selectMeasurement(m, i, 0, w)
             \/ \E w \in CardGrams : handleCustomGramInput(m, i, w)
             \/ resetToOriginalNutrition(m, i))
         => /\ uncaught'
            /\ UNCHANGED <<heap, loggedMeals, dailyTotals>>]_vars

\* C19 witness: a handler has thrown on a list of two meals or more, one of
\* whose ingredients had been rescaled before; the totals are still the sums.
C19_Witness ==
    /\ uncaught
    /\ Len(loggedMeals) >= 2
    /\ \E j \in 1..Len(loggedMeals) : \E i \in IngredientsOf(heap, loggedMeals[j]) :
         LET ing == heap[loggedMeals[j]].ingredients[i]
         IN  /\ ing.originalNutrients # <<>>
             /\ ing.nutrients # ing.originalNutrients[1]
             /\ heap[loggedMeals[j]].total_nutrients = IngredientSum(heap[loggedMeals[j]])
    /\ dailyTotals = DailySum(heap, loggedMeals)

\* C20 (as claimed): a meal that exists and is not in loggedMeals (it has been
\* removed with removeMeal) is not in loggedMeals after any step, the
\* completion of a logFood call included.
C20_RemovedStaysRemoved ==
    [][\A ref \in 1..Len(heap) :
         (\A j \in 1..Len(loggedMeals) : loggedMeals[j] # ref)
         => (\A j \in 1..Len(loggedMeals') : loggedMeals'[j] # ref)]_vars

\* C21 (as claimed): when a step appends the meals of a response, every meal
\* that was listed before the step with a rescaled or reset ingredient (one
\* that has its snapshot) is still listed after it, the same object with the
\* same nutrients and total_nutrients, and dailyTotals is the sum over the
\* list, that meal included.
C21_RescaleSurvivesAppend ==
    [][Len(heap') > Len(heap)
        => \A j \in 1..Len(loggedMeals) :
             LET ref == loggedMeals[j]
             IN  (\E i \in IngredientsOf(heap, ref) :
                     heap[ref].ingredients[i].originalNutrients # <<>>)
                 => /\ \E k \in 1..Len(loggedMeals') : loggedMeals'[k] = ref
                    /\ heap'[ref] = heap[ref]
                    /\ dailyTotals' = DailySum(heap', loggedMeals')]_vars

\* The ingredient without its nutrients and its snapshot.
Rest(ingredient) ==
    [ingredient EXCEPT !.nutrients = ZeroNutrients, !.originalNutrients = <<>>]

\* C22: a step of selectMeasurement, handleCustomGramInput or
\* resetToOriginalNutrition for the rendered ingredient i of meal m leaves
\* loggedMeals as it is (length and order), every other meal object as it is
\* (its total_nutrients, its ingredients), and in meal m the number and order
\* of the ingredients, every other ingredient, and of ingredient i everything
\* but nutrients and an originalNutrients that was not set.  (A step that
\* changes neither a meal object nor loggedMeals has nothing to show.)
C22_RescaleFrame ==
    [][\A m \in MealIndices(0) : \A i \in IngredientIndices(m, 0) :
         (/\ <<heap, loggedMeals>>' # <<heap, loggedMeals>>
          /\ \/ \E w \in CardGrams : selectMeasurement(m, i, 0, w)
             \/ \E w \in CardGrams : handleCustomGramInput(m, i, w)
             \/ resetToOriginalNutrition(m, i))
         => /\ loggedMeals' = loggedMeals
            /\ Len(heap') = Len(heap)
            /\ \A ref \in 1..Len(heap) : ref # loggedMeals[m + 1] => heap'[ref] = heap[ref]
            /\ LET before == heap[loggedMeals[m + 1]]
                   after == heap'[loggedMeals[m + 1]]
               IN  /\ after.meal_name = before.meal_name
                   /\ Len(after.ingredients) = Len(before.ingredients)
                   /\ \A k \in 1..Len(before.ingredients) :
                        k # i + 1 => after.ingredients[k] = before.ingredients[k]
                   /\ Rest(after.ingredients[i + 1]) = Rest(before.ingredients[i + 1])
                   /\ before.ingredients[i + 1].originalNutrients # <<>>
                        => after.ingredients[i + 1].originalNutrients
                             = before.ingredients[i + 1].originalNutrients]_vars

\* C22 witness: in a list of two salads, the lettuce of one has been rescaled:
\* its dressing is as the service sent it, and the other salad still has the
\* total the service sent, which is not the sum of its ingredients.
C22_Witness ==
    \E j, k \in 1..Len(loggedMeals) :
        LET changed == heap[loggedMeals[j]]
            other == heap[loggedMeals[k]]
        IN  /\ j # k
            /\ Len(changed.ingredients) = 2
            /\ changed.ingredients[1].originalNutrients # <<>>
            /\ changed.ingredients[1].nutrients # changed.ingredients[1].originalNutrients[1]
            /\ changed.ingredients[2] = Dressing
            /\ changed.total_nutrients = IngredientSum(changed)
            /\ other = ServiceMeal("salad")
            /\ other.total_nutrients # IngredientSum(other)

====
